---------------------------- MODULE Spec2Model ----------------------------
(***************************************************************************)
(* A model of el-embeddings: the axiom parser (load_data), the example     *)
(* sampler (Generator), alone and under worker threads, the                *)
(* parameter-array decomposition of both scripts, the validation loader    *)
(* (load_valid_data), the disjointness loss (dis_loss) and the training /  *)
(* validation / checkpoint loop (MyModelCheckpoint).                       *)
(*                                                                         *)
(* Text is modelled character by character: a Python str is a sequence of  *)
(* one-character strings, so slicing, strip, split and startswith are      *)
(* computed as Python computes them.                                       *)
(***************************************************************************)
EXTENDS Integers, Sequences, FiniteSets, TLC

VARIABLES
    \* ---- load_data ----
    lpc,            \* "reading" | "parsed" | "done" | "raised"
    file,           \* the lines load_data has consumed so far
    classes,        \* dict identifier -> index
    relations,      \* dict identifier -> index
    data,           \* dict normal form -> list of tuples
    raised          \* "none" or the name of the exception that left load_data

loadVars == <<lpc, file, classes, relations, data, raised>>

VARIABLES
    \* ---- the parameter-array section of the two main functions ----
    params_array_index, \* the --params-array-index option
    ran,                \* the scripts whose section has run
    train_opts,         \* elembedding.py: org, embedding_size, margin, reg_norm
    eval_opts           \* evaluate_interactions.py: the same four

paramVars == <<params_array_index, ran, train_opts, eval_opts>>

VARIABLES
    \* ---- Generator ----
    gpc,            \* "idle" | "ready" | "raised"
    shape0,         \* normal form -> data[form].shape[0]
    batch_size,
    steps,
    start,
    ret,            \* what the last call of next() returned or raised
    yielded,        \* batches returned since the last None
    rounds          \* None results so far

genVars == <<gpc, shape0, batch_size, steps, start, ret, yielded, rounds>>

VARIABLES
    \* ---- main, fit_generator and MyModelCheckpoint ----
    tpc,            \* "idle" | "setup" | "batch_begin" | "train_on_batch" |
                    \* "epoch_end" | "finished" | "raised"
    valid_data,     \* list of (class index, relation index, class index)
    el_margin,      \* el_model.margin
    cls_embeddings, \* class index -> <<center, radius>>
    rel_embeddings, \* relation index -> <<translation>>
    best_rank,      \* a fraction [num, den]
    stop_training,  \* model.stop_training
    epoch,
    steps_done,
    logs,           \* logs['loss'] of the running epoch
    files,          \* file name -> content, or Absent
    evals,          \* history: one record per mean_rank computed
    saves           \* history: the epochs whose on_epoch_end wrote the out files

trainVars == <<tpc, valid_data, el_margin, cls_embeddings, rel_embeddings, best_rank,
               stop_training, epoch, steps_done, logs, files, evals, saves>>

VARIABLES
    \* ---- ELModel.dis_loss on one disjointness axiom ----
    dpc,            \* "idle" | "input" | "output"
    dis_c,          \* the embedding of c: <<center, radius coordinate>>
    dis_d,          \* the embedding of d
    dis_margin,     \* self.margin
    dis_out         \* the loss without its regularization terms

lossVars == <<dpc, dis_c, dis_d, dis_margin, dis_out>>

VARIABLES
    \* ---- the worker threads that call Generator.next() ----
    wpc,            \* worker -> "call" | "draw" | "load" | "store"
    wstart          \* worker -> the value of self.start it has read for += 1

workerVars == <<wpc, wstart>>

vars == <<loadVars, paramVars, genVars, trainVars, lossVars, workerVars>>

(***************************************************************************)
(* Bounds                                                                  *)
(***************************************************************************)
MaxLines == 3
MaxIndex == 45
MaxCount == 2
MaxBatch == 2
MaxRounds == 2
MaxEpochs == 2
MaxCoord == 2
MaxWorkers == 2

(***************************************************************************)
(* Python str operations                                                   *)
(***************************************************************************)
Whitespace == {" ", "\n", "\t"}

\* s.startswith(p)
StartsWith(s, p) == Len(s) >= Len(p) /\ SubSeq(s, 1, Len(p)) = p

\* s.strip(): what lies between the first and the last character that is no
\* whitespace
Strip(s) ==
    LET solid == {i \in 1..Len(s) : s[i] \notin Whitespace}
    IN  IF solid = {} THEN <<>>
        ELSE SubSeq(s, CHOOSE i \in solid : \A j \in solid : i <= j,
                       CHOOSE i \in solid : \A j \in solid : i >= j)

\* s[n:]
SliceFrom(s, n) == SubSeq(s, n + 1, Len(s))

\* s[:-1]
KeepLast(s) == s
DropLast(s) == SubSeq(s, 1, Len(s) - 1)

\* s[n:-1]
SliceInner(s, n) == SubSeq(s, n + 1, Len(s) - 1)

\* s.find(p) != -1
Contains(s, p) ==
    \E i \in 1..(Len(s) - Len(p) + 1) : SubSeq(s, i, i + Len(p) - 1) = p

\* s.split(' '): every single blank separates, so two blanks in a row give an
\* empty token, and the empty string gives one empty token.
Split(s) ==
    LET blanks == {i \in 1..Len(s) : s[i] = " "}
        \* the k-th blank, with position 0 before the first token and
        \* Len(s) + 1 after the last
        cut(k) == IF k = 0 THEN 0
                  ELSE IF k > Cardinality(blanks) THEN Len(s) + 1
                  ELSE CHOOSE i \in blanks : Cardinality({j \in blanks : j < i}) = k - 1
    IN  [k \in 1..(Cardinality(blanks) + 1) |-> SubSeq(s, cut(k - 1) + 1, cut(k) - 1)]

\* s.split(): the maximal runs of characters that are no whitespace
SplitWhitespace(s) ==
    LET solid(i) == i \in 1..Len(s) /\ s[i] \notin Whitespace
        first == {i \in 1..Len(s) : solid(i) /\ ~solid(i - 1)}
        last(i) == CHOOSE j \in i..Len(s) :
                       (\A k \in i..j : solid(k)) /\ ~solid(j + 1)
        nth(k) == CHOOSE i \in first : Cardinality({j \in first : j < i}) = k - 1
    IN  [k \in 1..Cardinality(first) |-> SubSeq(s, nth(k), last(nth(k)))]

(***************************************************************************)
(* The tokens of the normalized ontology format                            *)
(***************************************************************************)
SubClassOfKw == <<"S","u","b","C","l","a","s","s","O","f","(">>
SubObjectPropertyOfKw ==
    <<"S","u","b","O","b","j","e","c","t","P","r","o","p","e","r","t","y","O","f">>
ObjectIntersectionOfKw ==
    <<"O","b","j","e","c","t","I","n","t","e","r","s","e","c","t","i","o","n","O","f","(">>
ObjectSomeValuesFromName ==
    <<"O","b","j","e","c","t","S","o","m","e","V","a","l","u","e","s","F","r","o","m">>
ObjectSomeValuesFromKw == Append(ObjectSomeValuesFromName, "(")
OwlNothing == <<"o","w","l",":","N","o","t","h","i","n","g">>
OwlThing == <<"o","w","l",":","T","h","i","n","g">>


\* Identifiers used by the example ontologies
IdA == <<"A">>
IdB == <<"B">>
IdC == <<"C">>
IdR == <<"R">>
IdS == <<"S">>

Ids == {IdA, IdB, IdC, OwlNothing, OwlThing}
RelIds == {IdR, IdS}

\* One line of the file as the normalizer writes it, line feed included
MkNF1(c, d) == SubClassOfKw \o c \o <<" ">> \o d \o <<")", "\n">>
MkNF2(c, d, e) ==
    SubClassOfKw \o ObjectIntersectionOfKw \o c \o <<" ">> \o d \o <<")", " ">>
        \o e \o <<")", "\n">>
MkNF3(c, r, d) ==
    SubClassOfKw \o c \o <<" ">> \o ObjectSomeValuesFromKw \o r \o <<" ">> \o d
        \o <<")", ")", "\n">>
MkNF4(r, c, d) ==
    SubClassOfKw \o ObjectSomeValuesFromKw \o r \o <<" ">> \o c \o <<")", " ">>
        \o d \o <<")", "\n">>
MkSubProp(r, s) ==
    SubObjectPropertyOfKw \o <<"(">> \o r \o <<" ">> \o s \o <<")", "\n">>

BlankLine == <<"\n">>
\* SubClassOf clauses with fewer tokens than their shape requires
ShortNF1 == SubClassOfKw \o IdA \o <<")", "\n">>
ShortNF2 ==
    SubClassOfKw \o ObjectIntersectionOfKw \o IdA \o <<" ">> \o IdB
        \o <<")", ")", "\n">>

WellFormedLines ==
    { MkNF1(IdA, IdB),
      MkNF1(OwlThing, IdA),
      MkNF2(IdA, IdB, IdC),
      MkNF2(IdA, IdB, OwlNothing),
      MkNF3(IdB, IdR, IdC),
      MkNF4(IdR, IdA, IdB),
      MkNF4(IdS, IdC, OwlThing) }
SubPropLines == { MkSubProp(IdR, IdS) }
MalformedLines == { BlankLine, ShortNF1, ShortNF2 }

Lines == WellFormedLines \cup SubPropLines \cup MalformedLines

(***************************************************************************)
(* load_data                                                               *)
(***************************************************************************)
NFs == {"nf1", "nf2", "nf3", "nf4", "disjoint"}

EmptyDict == [k \in {} |-> 0]

\* if k not in m: m[k] = len(m)
PutOffByOne(m, k) ==
    IF k \in DOMAIN m THEN m ELSE m @@ (k :> Cardinality(DOMAIN m) + 1)
Put(m, k) == IF k \in DOMAIN m THEN m ELSE m @@ (k :> Cardinality(DOMAIN m))

\* The list an intersection axiom with right-hand side e goes to
FormAlwaysNF2(e) == "nf2"
Form(e) == IF e = OwlNothing THEN "disjoint" ELSE "nf2"

\* The body of the loop over the lines of the file, for one line (index=True).
\* An index past the end of the token list raises IndexError, which leaves
\* load_data before any dict is touched.
ParseLine(raw, cl, rl, dt) ==
    LET keep == [classes |-> cl, relations |-> rl, data |-> dt, raised |-> "none"]
        err == [keep EXCEPT !.raised = "IndexError"]
        line == SliceInner(Strip(raw), 11)
        it == Split(line)
    IN  IF StartsWith(raw, SubObjectPropertyOfKw) THEN keep
        ELSE IF line = <<>> THEN keep
        ELSE IF StartsWith(line, ObjectIntersectionOfKw) THEN
            IF Len(it) < 3 THEN err
            ELSE LET c == SliceFrom(it[1], 21)
                     d == DropLast(it[2])
                     e == it[3]
                     cl1 == Put(Put(Put(cl, c), d), e)
                     form == Form(e)
                 IN  [keep EXCEPT !.classes = cl1,
                                  !.data[form] = Append(@, <<cl1[c], cl1[d], cl1[e]>>)]
        ELSE IF StartsWith(line, ObjectSomeValuesFromKw) THEN
            IF Len(it) < 3 THEN err
            ELSE LET r == SliceFrom(it[1], 21)
                     c == DropLast(it[2])
                     d == it[3]
                     cl1 == Put(Put(cl, c), d)
                     rl1 == Put(rl, r)
                 IN  [keep EXCEPT !.classes = cl1, !.relations = rl1,
                                  !.data["nf4"] = Append(@, <<rl1[r], cl1[c], cl1[d]>>)]
        ELSE IF Contains(line, ObjectSomeValuesFromName) THEN
            IF Len(it) < 3 THEN err
            ELSE LET c == it[1]
                     r == SliceFrom(it[2], 21)
                     d == DropLast(it[3])
                     cl1 == Put(Put(cl, c), d)
                     rl1 == Put(rl, r)
                 IN  [keep EXCEPT !.classes = cl1, !.relations = rl1,
                                  !.data["nf3"] = Append(@, <<cl1[c], rl1[r], cl1[d]>>)]
        ELSE
            IF Len(it) < 2 THEN err
            ELSE LET c == it[1]
                     d == it[2]
                     cl1 == Put(Put(cl, c), d)
                 IN  [keep EXCEPT !.classes = cl1,
                                  !.data["nf1"] = Append(@, <<cl1[c], cl1[d]>>)]

\* The permutations of 1..n
Perm(n) == {p \in [1..n -> 1..n] : \A i, j \in 1..n : p[i] = p[j] => i = j}

\* val[index]
Take(val, index) == [i \in 1..Len(val) |-> val[index[i]]]

IdleLoad ==
    /\ lpc = "idle"
    /\ file = <<>>
    /\ classes = EmptyDict
    /\ relations = EmptyDict
    /\ data = [k \in NFs |-> <<>>]
    /\ raised = "none"

IdleParams ==
    /\ params_array_index = -1
    /\ ran = {}
    /\ train_opts = [org |-> "", embedding_size |-> 0, margin |-> "", reg_norm |-> 0]
    /\ eval_opts = [org |-> "", embedding_size |-> 0, margin |-> "", reg_norm |-> 0]

IdleGen ==
    /\ gpc = "idle"
    /\ shape0 = [k \in NFs |-> 0]
    /\ batch_size = 0
    /\ steps = 0
    /\ start = 0
    /\ ret = [kind |-> "nothing"]
    /\ yielded = 0
    /\ rounds = 0

IdleTrain ==
    /\ tpc = "idle"
    /\ valid_data = <<>>
    /\ el_margin = 0
    /\ cls_embeddings = <<>>
    /\ rel_embeddings = <<>>
    /\ best_rank = [num |-> 0, den |-> 1]
    /\ stop_training = FALSE
    /\ epoch = 0
    /\ steps_done = 0
    /\ logs = "finite"
    /\ files = <<>>
    /\ evals = <<>>
    /\ saves = <<>>

IdleLoss ==
    /\ dpc = "idle"
    /\ dis_c = <<0, 0>>
    /\ dis_d = <<0, 0>>
    /\ dis_margin = 0
    /\ dis_out = 0

IdleWorkers ==
    /\ wpc = <<>>
    /\ wstart = <<>>

InitLoad ==
    /\ IdleParams /\ IdleGen /\ IdleTrain /\ IdleLoss /\ IdleWorkers
    /\ lpc = "reading"
    /\ file = <<>>
    /\ classes = EmptyDict
    /\ relations = EmptyDict
    /\ data = [k \in NFs |-> <<>>]
    /\ raised = "none"

\* for line in f: one iteration
ReadLine ==
    /\ lpc = "reading"
    /\ Len(file) < MaxLines
    /\ \E raw \in Lines :
        LET res == ParseLine(raw, classes, relations, data)
        IN  /\ file' = Append(file, raw)
            /\ classes' = res.classes
            /\ relations' = res.relations
            /\ data' = res.data
            /\ raised' = res.raised
            /\ lpc' = IF res.raised = "none" THEN "reading" ELSE "raised"
    /\ UNCHANGED <<paramVars, genVars, trainVars, lossVars, workerVars>>

\* End of file: the lists become arrays, each array is shuffled with the seed
\* set anew (so the permutation depends on the length alone), and the three
\* values are returned.
Shuffle ==
    /\ lpc = "reading"
    /\ LET lens == {Len(data[k]) : k \in NFs}
           perms == UNION {Perm(n) : n \in lens}
       IN  \E sh \in {f \in [lens -> perms] : \A n \in lens : f[n] \in Perm(n)} :
               data' = [k \in NFs |-> Take(data[k], sh[Len(data[k])])]
    /\ lpc' = "done"
    /\ UNCHANGED <<file, classes, relations, raised>>
    /\ UNCHANGED <<paramVars, genVars, trainVars, lossVars, workerVars>>

NextLoad == ReadLine \/ Shuffle

SpecLoad == InitLoad /\ [][NextLoad]_vars


(***************************************************************************)
(* The parameter-array section of main, in both scripts                    *)
(***************************************************************************)
orgs == <<"human", "yeast">>
sizes == <<50, 100, 200, 400>>
margins == <<"-0.1", "-0.01", "0.0", "0.01", "0.1">>
reg_norms == <<1>>

\* lst[i] of a Python list
At(lst, i) == lst[i + 1]

\* The decomposition with the embedding size taken first, which main does not do
TrainParamsSizeFirst(pai, opts) ==
    IF pai # -1
    THEN LET embedding_size == At(sizes, pai % 4)
             i1 == pai \div 4
             margin == At(margins, i1 % 5)
             i2 == i1 \div 5
             org == At(orgs, i2 % 2)
         IN  [org |-> org, embedding_size |-> embedding_size, margin |-> margin,
              reg_norm |-> At(reg_norms, 0)]
    ELSE opts

\* elembedding.py: the options after the section, from the options before it
TrainParams(pai, opts) ==
    IF pai # -1
    THEN LET reg_norm == At(reg_norms, 0)
             margin == At(margins, pai % 5)
             i1 == pai \div 5
             embedding_size == At(sizes, i1 % 4)
             i2 == i1 \div 4
             org == At(orgs, i2 % 2)
         IN  [org |-> org, embedding_size |-> embedding_size, margin |-> margin,
              reg_norm |-> reg_norm]
    ELSE opts

\* evaluate_interactions.py: the same section
EvalParams(pai, opts) ==
    IF pai # -1
    THEN LET reg_norm == At(reg_norms, 0)
             margin == At(margins, pai % 5)
             i1 == pai \div 5
             embedding_size == At(sizes, i1 % 4)
             i2 == i1 \div 4
             org == At(orgs, i2 % 2)
         IN  [org |-> org, embedding_size |-> embedding_size, margin |-> margin,
              reg_norm |-> reg_norm]
    ELSE opts

\* The options as the command line gives them. elembedding.py has no organism
\* option (the data file names it); evaluate_interactions.py fixes the
\* embedding size, the norm and the organism before the section.
TrainCommandLine ==
    [org : {"by data file"}, embedding_size : {100, 25}, margin : {"0.01", "0.5"},
     reg_norm : {1, 2}]
EvalCommandLine ==
    [org : {"yeast"}, embedding_size : {100}, margin : {"0.01", "0.5"},
     reg_norm : {1}]

InitParams ==
    /\ IdleLoad /\ IdleGen /\ IdleTrain /\ IdleLoss /\ IdleWorkers
    /\ params_array_index \in -1..MaxIndex
    /\ ran = {}
    /\ train_opts \in TrainCommandLine
    /\ eval_opts \in EvalCommandLine

TrainMain ==
    /\ "train" \notin ran
    /\ train_opts' = TrainParams(params_array_index, train_opts)
    /\ ran' = ran \cup {"train"}
    /\ UNCHANGED <<params_array_index, eval_opts, loadVars, genVars, trainVars,
                   lossVars, workerVars>>

EvalMain ==
    /\ "eval" \notin ran
    /\ eval_opts' = EvalParams(params_array_index, eval_opts)
    /\ ran' = ran \cup {"eval"}
    /\ UNCHANGED <<params_array_index, train_opts, loadVars, genVars, trainVars,
                   lossVars, workerVars>>

NextParams == TrainMain \/ EvalMain

SpecParams == InitParams /\ [][NextParams]_vars

(***************************************************************************)
(* Generator, as main builds it                                            *)
(***************************************************************************)
Max(a, b) == IF a >= b THEN a ELSE b

\* nb_train_data: the largest len(val) over the five arrays
NbTrainData(sh) ==
    Max(sh["nf1"], Max(sh["nf2"], Max(sh["nf3"], Max(sh["nf4"], sh["disjoint"]))))

\* int(math.ceil(n / (1.0 * b)))
TrainSteps(n, b) == (n + b - 1) \div b

\* The results np.random.choice(a, size) can give: size indices below a. With
\* a = 0 there is none, and the call raises ValueError.
Choice(a, size) == [1..size -> 0..(a - 1)]

InitGen ==
    /\ IdleLoad /\ IdleParams /\ IdleTrain /\ IdleLoss /\ IdleWorkers
    /\ gpc = "ready"
    /\ shape0 \in [NFs -> 0..MaxCount]
    /\ batch_size \in 1..MaxBatch
    /\ steps = TrainSteps(NbTrainData(shape0), batch_size)
    /\ start = 0
    /\ ret = [kind |-> "nothing"]
    /\ yielded = 0
    /\ rounds = 0

\* Generator.next(), the branch start < steps with every draw possible
NextBatch ==
    /\ gpc = "ready"
    /\ start < steps
    /\ \A k \in NFs : Choice(shape0[k], batch_size) # {}
    /\ ret' = [kind |-> "batch", rows |-> [k \in NFs |-> batch_size],
               labels |-> batch_size]
    /\ start' = start + 1
    /\ yielded' = yielded + 1
    /\ UNCHANGED <<gpc, shape0, batch_size, steps, rounds, loadVars, paramVars,
                   trainVars, lossVars, workerVars>>

\* Generator.next(), the branch start < steps when a draw raises
NextRaises ==
    /\ gpc = "ready"
    /\ start < steps
    /\ \E k \in NFs : Choice(shape0[k], batch_size) = {}
    /\ ret' = [kind |-> "ValueError"]
    /\ gpc' = "raised"
    /\ UNCHANGED <<shape0, batch_size, steps, start, yielded, rounds, loadVars,
                   paramVars, trainVars,
                   lossVars, workerVars>>

\* Generator.next(), the else branch: reset() and the implicit return None
NextNone ==
    /\ gpc = "ready"
    /\ ~(start < steps)
    /\ rounds < MaxRounds
    /\ start' = 0
    /\ ret' = [kind |-> "None", after |-> yielded]
    /\ yielded' = 0
    /\ rounds' = rounds + 1
    /\ UNCHANGED <<gpc, shape0, batch_size, steps, loadVars, paramVars, trainVars,
                   lossVars, workerVars>>

NextGen == NextBatch \/ NextRaises \/ NextNone

SpecGen == InitGen /\ [][NextGen]_vars

(***************************************************************************)
(* Generator.next() called by the worker threads of fit_generator.  A      *)
(* thread can be preempted between any two of: the test start < steps, the *)
(* draw, the read and the write of `self.start += 1`, and reset().         *)
(***************************************************************************)
Workers == 1..MaxWorkers

InitWorkers ==
    /\ IdleLoad /\ IdleParams /\ IdleTrain /\ IdleLoss
    /\ gpc = "ready"
    /\ shape0 \in [NFs -> 1..MaxCount]
    /\ batch_size \in 1..MaxBatch
    /\ steps = TrainSteps(NbTrainData(shape0), batch_size)
    /\ start = 0
    /\ ret = [kind |-> "nothing"]
    /\ yielded = 0
    /\ rounds = 0
    /\ wpc = [w \in Workers |-> "call"]
    /\ wstart = [w \in Workers |-> 0]

\* if self.start < self.steps: taken
WorkerTest(w) ==
    /\ wpc[w] = "call"
    /\ start < steps
    /\ wpc' = [wpc EXCEPT ![w] = "draw"]
    /\ UNCHANGED <<wstart, genVars, loadVars, paramVars, trainVars, lossVars>>

\* if self.start < self.steps: not taken
WorkerElse(w) ==
    /\ wpc[w] = "call"
    /\ ~(start < steps)
    /\ rounds < MaxRounds
    /\ wpc' = [wpc EXCEPT ![w] = "reset"]
    /\ UNCHANGED <<wstart, genVars, loadVars, paramVars, trainVars, lossVars>>

\* the five np.random.choice calls and the fancy indexing
WorkerDraw(w) ==
    /\ wpc[w] = "draw"
    /\ \A k \in NFs : Choice(shape0[k], batch_size) # {}
    /\ wpc' = [wpc EXCEPT ![w] = "load"]
    /\ UNCHANGED <<wstart, genVars, loadVars, paramVars, trainVars, lossVars>>

\* self.start += 1: the read
WorkerLoad(w) ==
    /\ wpc[w] = "load"
    /\ wstart' = [wstart EXCEPT ![w] = start]
    /\ wpc' = [wpc EXCEPT ![w] = "store"]
    /\ UNCHANGED <<genVars, loadVars, paramVars, trainVars, lossVars>>

\* self.start += 1: the write, and the return of the batch
WorkerStore(w) ==
    /\ wpc[w] = "store"
    /\ start' = wstart[w] + 1
    /\ ret' = [kind |-> "batch", rows |-> [k \in NFs |-> batch_size],
               labels |-> batch_size]
    /\ yielded' = yielded + 1
    /\ wpc' = [wpc EXCEPT ![w] = "call"]
    /\ UNCHANGED <<wstart, gpc, shape0, batch_size, steps, rounds, loadVars,
                   paramVars, trainVars, lossVars>>

\* self.reset() and the implicit return None
WorkerReset(w) ==
    /\ wpc[w] = "reset"
    /\ start' = 0
    /\ ret' = [kind |-> "None", after |-> yielded]
    /\ yielded' = 0
    /\ rounds' = rounds + 1
    /\ wpc' = [wpc EXCEPT ![w] = "call"]
    /\ UNCHANGED <<wstart, gpc, shape0, batch_size, steps, loadVars, paramVars,
                   trainVars, lossVars>>

NextWorkers ==
    \E w \in Workers :
        \/ WorkerTest(w)
        \/ WorkerElse(w)
        \/ WorkerDraw(w)
        \/ WorkerLoad(w)
        \/ WorkerStore(w)
        \/ WorkerReset(w)

SpecWorkers == InitWorkers /\ [][NextWorkers]_vars

(***************************************************************************)
(* main: what it builds from the parsed ontology                           *)
(***************************************************************************)
NoneValue == -1

P1 == <<"<","h","t","t","p",":","/","/","p","1",">">>
P2 == <<"<","h","t","t","p",":","/","/","p","2",">">>
HasRel == <<"<","h","t","t","p",":","/","/","r",">">>
GOPrefix ==
    <<"<","h","t","t","p",":","/","/","p","u","r","l",".","o","b","o","l","i","b",
      "r","a","r","y",".","o","r","g","/","o","b","o","/","G","O","_">>
GO1 == GOPrefix \o <<"1", ">">>

\* load_data on a whole file
RECURSIVE LoadAll(_, _)
LoadAll(lines, acc) ==
    IF lines = <<>> \/ acc.raised # "none" THEN acc
    ELSE LoadAll(Tail(lines),
                 ParseLine(Head(lines), acc.classes, acc.relations, acc.data))

Loaded(lines) ==
    LoadAll(lines, [classes |-> EmptyDict, relations |-> EmptyDict,
                    data |-> [k \in NFs |-> <<>>], raised |-> "none"])

\* Training files: each has an axiom of every normal form, so that every draw
\* of the Generator is possible.
TrainFiles ==
    { <<MkNF3(P1, HasRel, P2), MkNF1(P2, P1), MkNF4(HasRel, P2, P1),
        MkNF2(P1, P2, P1), MkNF2(P1, P2, OwlNothing)>>,
      <<MkNF4(HasRel, OwlThing, P1), MkNF3(P1, HasRel, P2), MkNF1(P2, P1),
        MkNF2(P1, P2, P1), MkNF2(P1, P2, OwlNothing)>>,
      <<MkNF3(P1, HasRel, OwlThing), MkNF1(P2, P1), MkNF4(HasRel, P2, P1),
        MkNF2(P1, P2, P1), MkNF2(P1, P2, OwlNothing)>>,
      <<MkNF3(P1, HasRel, GO1), MkNF1(P2, P1), MkNF4(HasRel, P2, P1),
        MkNF2(P1, P2, P1), MkNF2(P1, P2, OwlNothing)>> }

\* proteins: the classes outside the GO namespace
Proteins(cl) == {k \in DOMAIN cl : ~StartsWith(k, GOPrefix)}

\* A set of numbers as the array that lists it in increasing order
RECURSIVE Ascending(_)
Ascending(S) ==
    IF S = {} THEN <<>>
    ELSE LET lo == CHOOSE x \in S : \A y \in S : x <= y
         IN  <<lo>> \o Ascending(S \ {lo})

\* A list as an array indexed from 0
Array(lst) == [i \in 0..(Len(lst) - 1) |-> lst[i + 1]]

\* prot_index = list(proteins.values()): a dict lists its values in insertion
\* order, which for classes is the order of the indices
ProtIndex(cl) == Array(Ascending({cl[k] : k \in Proteins(cl)}))

\* prot_dict = {v: k for k, v in enumerate(prot_index)}
ProtDict(pi) == [v \in {pi[k] : k \in DOMAIN pi} |-> CHOOSE k \in DOMAIN pi : pi[k] = v]

\* cls_list / rel_list: the identifiers by index
NameList(m) == [i \in 0..(Cardinality(DOMAIN m) - 1) |-> CHOOSE k \in DOMAIN m : m[k] = i]

\* top = classes.get('owl:Thing', None)
Top(cl) == IF OwlThing \in DOMAIN cl THEN cl[OwlThing] ELSE NoneValue

\* The truth value Python gives `if self.top:`
Truthy(top) == top # NoneValue /\ top # 0

\* top_embed: zeros, with the radius coordinate 1000000.0
TopRadius == 1000000
TopEmbed == <<0, TopRadius>>

(***************************************************************************)
(* The validation scorer of on_epoch_end.  Embeddings have one center      *)
(* coordinate and the radius, all whole numbers, so a norm is an absolute  *)
(* value.  exp is tabulated in millionths.                                 *)
(***************************************************************************)
Abs(x) == IF x < 0 THEN -x ELSE x

\* 1 / np.exp(e), in millionths
ExpNeg(e) ==
    CASE e <= 0 -> 1000000
      [] e = 1 -> 367879
      [] e = 2 -> 135335
      [] e = 3 -> 49787
      [] e = 4 -> 18316
      [] e = 5 -> 6738
      [] e = 6 -> 2479
      [] e = 7 -> 912
      [] e = 8 -> 335
      [] e = 9 -> 123
      [] e = 10 -> 45
      [] e = 11 -> 17
      [] e = 12 -> 6
      [] e = 13 -> 2
      [] OTHER -> 0

\* overlap, as a numerator over OverlapDen(rc)
OverlapNum(dst, rc, rp, m) ==
    IF rc > 0
    THEN Max(0, 2 * rc - Max(dst + rc - rp - m, 0))
    ELSE IF Max(dst - rp - m, 0) = 0 THEN 1 ELSE 0
OverlapDen(rc) == IF rc > 0 THEN 2 * rc ELSE 1

Edst(dst, rc, rp, m) == Max(0, dst - rc - rp - m)

\* res = (overlap + 1 / np.exp(edst)) / 2, times 2 * OverlapDen(rc) * 1000000
Res(dst, rc, rp, m) ==
    OverlapNum(dst, rc, rp, m) * ExpNeg(0) + OverlapDen(rc) * ExpNeg(Edst(dst, rc, rp, m))

\* Twice rankdata(-res, method='average')[d]
Rank2(res, d) ==
    2 * Cardinality({p \in DOMAIN res : res[p] > res[d]})
      + Cardinality({p \in DOMAIN res : res[p] = res[d]}) + 1

\* The loop over valid_data.  prot_embeds is updated in place by ec += er;
\* prot_dict[...] raises KeyError for a class that is no protein.
RECURSIVE ScoreLoop(_, _, _, _, _, _, _)
ScoreLoop(vd, prot_embeds, prot_rs, rel, prot_dict, m, acc) ==
    IF vd = <<>> THEN [raised |-> "none", sum2 |-> acc, centers |-> prot_embeds]
    ELSE LET t == Head(vd)
         IN  IF t[1] \notin DOMAIN prot_dict \/ t[3] \notin DOMAIN prot_dict
             THEN [raised |-> "KeyError", sum2 |-> acc, centers |-> prot_embeds]
             ELSE LET c == prot_dict[t[1]]
                      r == t[2]
                      d == prot_dict[t[3]]
                      rc == prot_rs[c]
                      ec == prot_embeds[c] + rel[r][1]
                      moved == [prot_embeds EXCEPT ![c] = ec]
                      res == [p \in DOMAIN moved |->
                                Res(Abs(moved[p] - ec), rc, prot_rs[p], m)]
                  IN  ScoreLoop(Tail(vd), moved, prot_rs, rel, prot_dict, m,
                                acc + Rank2(res, d))

\* mean_rank as on_epoch_end computes it, a fraction
Score(cls, rel, vd, cl, m) ==
    LET pi == ProtIndex(cl)
        prot_embeds == [k \in DOMAIN pi |-> cls[pi[k]][1]]
        prot_rs == [k \in DOMAIN pi |-> cls[pi[k]][2]]
        out == ScoreLoop(vd, prot_embeds, prot_rs, rel, ProtDict(pi), m, 0)
    IN  [raised |-> out.raised, mean_rank |-> [num |-> out.sum2, den |-> 2 * Len(vd)],
         centers |-> out.centers]

\* evaluate_interactions.py: the same loop over the test triples, with
\* rs = np.abs(embeds[:, -1])
EvalScore(cls, rel, vd, cl, m) ==
    LET pi == ProtIndex(cl)
        prot_embeds == [k \in DOMAIN pi |-> cls[pi[k]][1]]
        prot_rs == [k \in DOMAIN pi |-> Abs(cls[pi[k]][2])]
        out == ScoreLoop(vd, prot_embeds, prot_rs, rel, ProtDict(pi), m, 0)
    IN  [raised |-> out.raised, mean_rank |-> [num |-> out.sum2, den |-> 2 * Len(vd)],
         centers |-> out.centers]

\* a < b for fractions with positive denominators
RatLess(a, b) == a.num * b.den < b.num * a.den
RatEq(a, b) == a.num * b.den = b.num * a.den

\* if mean_rank < self.best_rank
ImprovedOrEqual(mean_rank, best) == ~RatLess(best, mean_rank)
Improved(mean_rank, best) == RatLess(mean_rank, best)

\* math.isnan(current_loss)
IsNaN(loss) == loss = "nan"

\* The loss the epoch can report: mse is never negative
LossValues == {"finite", "nan", "inf"}

(***************************************************************************)
(* main, fit_generator and the callbacks of MyModelCheckpoint              *)
(***************************************************************************)
Coords == -1..2
RelCoords == 0..1

\* The tables a fresh model can hold (a random initialisation)
InitTables(n) ==
    { [i \in 0..(n - 1) |-> <<0, 1>>],
      [i \in 0..(n - 1) |-> <<i % 3, (i % 3) - 1>>] }
InitRelTables(n) == { [i \in 0..(n - 1) |-> <<1>>] }

\* load_valid_data: f'<http://{it[0]}>'
HttpOpen == <<"<","h","t","t","p",":","/","/">>
Wrap(tok) == HttpOpen \o tok \o <<">">>

\* load_valid_data, one iteration of `for line in f`
LoadValidLine(line, cl, rl, dt) ==
    LET it == SplitWhitespace(Strip(line))
    IN  IF Len(it) < 3 THEN [data |-> dt, raised |-> "IndexError"]
        ELSE LET id1 == Wrap(it[1])
                 id2 == Wrap(it[2])
                 rel == Wrap(it[3])
             IN  IF id1 \notin DOMAIN cl \/ id2 \notin DOMAIN cl \/ rel \notin DOMAIN rl
                 THEN [data |-> dt, raised |-> "none"]
                 ELSE [data |-> Append(dt, <<cl[id1], rl[rel], cl[id2]>>),
                       raised |-> "none"]

RECURSIVE LoadValidAll(_, _, _, _)
LoadValidAll(lines, cl, rl, acc) ==
    IF lines = <<>> \/ acc.raised # "none" THEN acc
    ELSE LoadValidAll(Tail(lines), cl, rl, LoadValidLine(Head(lines), cl, rl, acc.data))

load_valid_data(lines, cl, rl) ==
    LoadValidAll(lines, cl, rl, [data |-> <<>>, raised |-> "none"])

\* The lines of a validation file: the two proteins, then the relation
P3 == <<"<","h","t","t","p",":","/","/","p","3",">">>
OtherRel == <<"<","h","t","t","p",":","/","/","q",">">>
Bare(id) == SliceInner(id, Len(HttpOpen))
MkValid(a, b, r) == Bare(a) \o <<" ">> \o Bare(b) \o <<"\t">> \o Bare(r) \o <<"\n">>

\* Validation files: empty; triples of proteins; lines whose protein or
\* relation the ontology does not have; a line whose second endpoint is a GO
\* class; a file that ends with an empty line.
ValidFiles ==
    { <<>>,
      <<MkValid(P1, P2, HasRel)>>,
      <<MkValid(P1, P2, HasRel), MkValid(P3, P1, HasRel), MkValid(P2, P1, HasRel)>>,
      <<MkValid(P1, P2, OtherRel), MkValid(P1, P2, HasRel)>>,
      <<MkValid(P2, P1, HasRel), MkValid(P1, GO1, HasRel)>>,
      <<MkValid(P1, P2, HasRel), <<"\n">>>> }

\* The validation sets load_valid_data returns for these classes; when it
\* raises, main ends before the model is built
ValidSets(cl, rl) ==
    { load_valid_data(f, cl, rl).data :
        f \in {g \in ValidFiles : load_valid_data(g, cl, rl).raised = "none"} }

\* A pickled DataFrame, or a file that was never written
Absent == [written |-> FALSE, names |-> EmptyDict, embeddings |-> EmptyDict]
Pickle(names, table) == [written |-> TRUE, names |-> names, embeddings |-> table]

\* The tables one gradient step can lead to: a small move of one coordinate
\* of one row, or no move
Stepped(table, range) ==
    {table} \cup
    { [table EXCEPT ![i][j] = v] :
        i \in DOMAIN table, j \in 1..2, v \in range }
OneStep(table, range) ==
    { t \in Stepped(table, range) :
        \A i \in DOMAIN table : \A j \in DOMAIN table[i] :
            /\ j \in DOMAIN t[i]
            /\ Abs(t[i][j] - table[i][j]) <= 1 }

\* --batch-size, by default
DefaultBatchSize == 256

InitTrain ==
    /\ IdleParams /\ IdleLoss /\ IdleWorkers
    /\ \E f \in TrainFiles :
          /\ file = f
          /\ classes = Loaded(f).classes
          /\ relations = Loaded(f).relations
          /\ data = Loaded(f).data
          /\ raised = Loaded(f).raised
    /\ lpc = "done"
    /\ gpc = "ready"
    /\ shape0 = [k \in NFs |-> Len(data[k])]
    /\ batch_size = DefaultBatchSize
    /\ steps = TrainSteps(NbTrainData(shape0), batch_size)
    /\ start = 0
    /\ ret = [kind |-> "nothing"]
    /\ yielded = 0
    /\ rounds = 0
    /\ valid_data \in ValidSets(classes, relations)
    /\ el_margin \in {-1, 1}
    /\ cls_embeddings \in InitTables(Cardinality(DOMAIN classes))
    /\ rel_embeddings \in InitRelTables(Cardinality(DOMAIN relations))
    /\ best_rank = [num |-> 100000, den |-> 1]
    /\ stop_training = FALSE
    /\ epoch = 0
    /\ steps_done = 0
    /\ logs = "finite"
    /\ files = [n \in {"cls_0", "rel_0", "cls", "rel"} |-> Absent]
    /\ evals = <<>>
    /\ saves = <<>>
    /\ tpc = "setup"

\* main, "Save initial embeddings", and the call of fit_generator
NoInitialSnapshot(fs, cl, rl, cls, rel) == fs
InitialSnapshot(fs, cl, rl, cls, rel) ==
    [fs EXCEPT !["cls_0"] = Pickle(NameList(cl), cls),
               !["rel_0"] = Pickle(NameList(rl), rel)]

SaveInitial ==
    /\ tpc = "setup"
    /\ files' = InitialSnapshot(files, classes, relations, cls_embeddings,
                                rel_embeddings)
    /\ tpc' = IF epoch < MaxEpochs THEN "batch_begin" ELSE "finished"
    /\ UNCHANGED <<valid_data, el_margin, cls_embeddings, rel_embeddings, best_rank,
                   stop_training, epoch, steps_done, logs, evals, saves>>
    /\ UNCHANGED <<loadVars, paramVars, genVars, lossVars, workerVars>>

\* MyModelCheckpoint.on_batch_begin
Pin(top, cls) == IF Truthy(top) THEN [cls EXCEPT ![top] = TopEmbed] ELSE cls

OnBatchBegin ==
    /\ tpc = "batch_begin"
    /\ cls_embeddings' = Pin(Top(classes), cls_embeddings)
    /\ tpc' = "train_on_batch"
    /\ UNCHANGED <<valid_data, el_margin, rel_embeddings, best_rank, stop_training,
                   epoch, steps_done, logs, files, evals, saves>>
    /\ UNCHANGED <<loadVars, paramVars, genVars, lossVars, workerVars>>

\* fit_generator: train_on_batch, one gradient step, and the running loss
TrainOnBatch ==
    /\ tpc = "train_on_batch"
    /\ \/ /\ cls_embeddings' \in OneStep(cls_embeddings, Coords)
          /\ rel_embeddings' = rel_embeddings
       \/ /\ rel_embeddings' \in OneStep(rel_embeddings, RelCoords)
          /\ cls_embeddings' = cls_embeddings
    /\ logs' \in LossValues
    /\ steps_done' = steps_done + 1
    /\ tpc' = IF steps_done + 1 < steps THEN "batch_begin" ELSE "epoch_end"
    /\ UNCHANGED <<valid_data, el_margin, best_rank, stop_training, epoch, files,
                   evals, saves>>
    /\ UNCHANGED <<loadVars, paramVars, genVars, lossVars, workerVars>>

\* fit_generator after the callbacks of the epoch's end
EpochLoop(stop) ==
    /\ epoch' = epoch + 1
    /\ steps_done' = 0
    /\ logs' = "finite"
    /\ tpc' = IF stop \/ epoch + 1 >= MaxEpochs THEN "finished" ELSE "batch_begin"

\* MyModelCheckpoint.on_epoch_end
OnEpochEnd ==
    /\ tpc = "epoch_end"
    /\ LET current_loss == logs
           scored == Score(cls_embeddings, rel_embeddings, valid_data, classes,
                           el_margin)
       IN  \/ /\ IsNaN(current_loss)
              /\ stop_training' = TRUE
              /\ EpochLoop(TRUE)
              /\ UNCHANGED <<best_rank, files, evals, saves>>
           \/ /\ ~IsNaN(current_loss)
              /\ Len(valid_data) = 0
              /\ EpochLoop(stop_training)
              /\ UNCHANGED <<best_rank, files, evals, saves, stop_training>>
           \/ /\ ~IsNaN(current_loss)
              /\ Len(valid_data) # 0
              /\ scored.raised # "none"
              /\ tpc' = "raised"
              /\ UNCHANGED <<best_rank, files, evals, saves, stop_training, epoch,
                             steps_done, logs>>
           \/ /\ ~IsNaN(current_loss)
              /\ Len(valid_data) # 0
              /\ scored.raised = "none"
              /\ evals' = Append(evals, [epoch |-> epoch,
                                         mean_rank |-> scored.mean_rank])
              /\ IF Improved(scored.mean_rank, best_rank)
                 THEN /\ best_rank' = scored.mean_rank
                      /\ files' = [files EXCEPT
                            !["cls"] = Pickle(NameList(classes), cls_embeddings),
                            !["rel"] = Pickle(NameList(relations), rel_embeddings)]
                      /\ saves' = Append(saves, epoch)
                 ELSE UNCHANGED <<best_rank, files, saves>>
              /\ EpochLoop(stop_training)
              /\ UNCHANGED stop_training
    /\ UNCHANGED <<valid_data, el_margin, cls_embeddings, rel_embeddings>>
    /\ UNCHANGED <<loadVars, paramVars, genVars, lossVars, workerVars>>

NextTrain == SaveInitial \/ OnBatchBegin \/ TrainOnBatch \/ OnEpochEnd

Spec == InitTrain /\ [][NextTrain]_vars

(***************************************************************************)
(* ELModel.dis_loss on one row of the disjointness batch.  As in the       *)
(* scorer, an embedding is one center coordinate and the radius            *)
(* coordinate, whole numbers, and the margin is a whole number.            *)
(***************************************************************************)
\* tf.nn.relu
Relu(x) == IF x > 0 THEN x ELSE 0

\* tf.nn.relu(sr - dst + self.margin) with the other sign of the margin
DisViolationMarginSubtracted(c, d, m) ==
    LET rc == Abs(c[2])
        rd == Abs(d[2])
        sr == rc + rd
        x == d[1] - c[1]
        dst == Abs(x)
    IN  Relu(sr - dst - m)

\* dis_loss without self.reg(x1) + self.reg(x2)
DisViolation(c, d, m) ==
    LET rc == Abs(c[2])
        rd == Abs(d[2])
        sr == rc + rd
        x == d[1] - c[1]
        dst == Abs(x)
    IN  Relu(sr - dst + m)

Balls == (-MaxCoord..MaxCoord) \X (-MaxCoord..MaxCoord)
Margins == {-1, 0, 1}

InitLoss ==
    /\ IdleLoad /\ IdleParams /\ IdleGen /\ IdleTrain /\ IdleWorkers
    /\ dpc = "input"
    /\ dis_c \in Balls
    /\ dis_d \in Balls
    /\ dis_margin \in Margins
    /\ dis_out = 0

DisLoss ==
    /\ dpc = "input"
    /\ dis_out' = DisViolation(dis_c, dis_d, dis_margin)
    /\ dpc' = "output"
    /\ UNCHANGED <<dis_c, dis_d, dis_margin>>
    /\ UNCHANGED <<loadVars, paramVars, genVars, trainVars, workerVars>>

NextLoss == DisLoss

SpecLoss == InitLoss /\ [][NextLoss]_vars

(***************************************************************************)
(* Properties of load_data                                                 *)
(***************************************************************************)
\* m.get(k), with -1 standing for None
Get(m, k) == IF k \in DOMAIN m THEN m[k] ELSE -1

Last(s) == s[Len(s)]

\* A step of ReadLine, and the line it consumed
IsRead == Len(file') = Len(file) + 1
ReadRaw == Last(file')

\* lst with one more element, t, at its end, every other list of data unchanged
OnlyAppends(form, t) == data' = [data EXCEPT ![form] = Append(@, t)]

\* The identifiers of seq that are not in known, in first-seen order
RECURSIVE FirstSeen(_, _)
FirstSeen(seq, known) ==
    IF seq = <<>> THEN <<>>
    ELSE IF Head(seq) \in known THEN FirstSeen(Tail(seq), known)
    ELSE <<Head(seq)>> \o FirstSeen(Tail(seq), known \cup {Head(seq)})

\* m' keeps every index of m and numbers the identifiers of seq that are new
\* from len(m) on, in the order of seq
Numbers(m, mNext, seq) ==
    LET new == FirstSeen(seq, DOMAIN m)
    IN  /\ DOMAIN mNext = DOMAIN m \cup {new[i] : i \in 1..Len(new)}
        /\ \A k \in DOMAIN m : Get(mNext, k) = m[k]
        /\ \A i \in 1..Len(new) : Get(mNext, new[i]) = Cardinality(DOMAIN m) + i - 1

C5_Step ==
    IsRead =>
        /\ \A c, d \in Ids : ReadRaw = MkNF1(c, d) =>
              OnlyAppends("nf1", <<Get(classes', c), Get(classes', d)>>)
        /\ \A c, d, e \in Ids : ReadRaw = MkNF2(c, d, e) =>
              \/ OnlyAppends("nf2",
                     <<Get(classes', c), Get(classes', d), Get(classes', e)>>)
              \/ OnlyAppends("disjoint",
                     <<Get(classes', c), Get(classes', d), Get(classes', e)>>)
        /\ \A c, d \in Ids : \A r \in RelIds :
              /\ ReadRaw = MkNF4(r, c, d) =>
                    OnlyAppends("nf4",
                        <<Get(relations', r), Get(classes', c), Get(classes', d)>>)
              /\ ReadRaw = MkNF3(c, r, d) =>
                    OnlyAppends("nf3",
                        <<Get(classes', c), Get(relations', r), Get(classes', d)>>)
        /\ ReadRaw \in WellFormedLines => raised' = "none"
        /\ \A r, s \in RelIds : ReadRaw = MkSubProp(r, s) =>
              UNCHANGED <<classes, relations, data, raised>>

C5_Scenario ==
    (file = <<MkNF1(IdA, IdB), MkNF2(IdA, IdB, IdC)>> /\ lpc = "done") =>
        /\ classes = (IdA :> 0) @@ (IdB :> 1) @@ (IdC :> 2)
        /\ relations = EmptyDict
        /\ data = [k \in NFs |->
                     IF k = "nf1" THEN << <<0, 1>> >>
                     ELSE IF k = "nf2" THEN << <<0, 1, 2>> >>
                     ELSE <<>>]

\* C5: every well-formed SubClassOf line adds exactly one tuple to the one list
\* its shape selects (NF2 or Disjointness, NF4 as (r, c, d), NF3 as (c, r, d),
\* NF1 as (c, d)), a SubObjectPropertyOf line changes nothing, and the file
\* SubClassOf(A B), SubClassOf(ObjectIntersectionOf(A B) C) yields the class
\* index {A:0, B:1, C:2}, the NF1 axiom (0,1), the NF2 axiom (0,1,2), no other.
C5_LoadByShape == [][C5_Step]_vars /\ []C5_Scenario

C5_Witness ==
    /\ lpc = "done"
    /\ file = <<MkNF1(IdA, IdB), MkNF2(IdA, IdB, IdC)>>
    /\ data["nf2"] = << <<0, 1, 2>> >>

\* m maps its keys one to one onto 0..len(m)-1
IsIndex(m) ==
    /\ {m[k] : k \in DOMAIN m} = 0..(Cardinality(DOMAIN m) - 1)
    /\ \A k1, k2 \in DOMAIN m : m[k1] = m[k2] => k1 = k2

Assigned(m) == {m[k] : k \in DOMAIN m}

\* The positions of a tuple of each list that hold a class index, and those
\* that hold a relation index
ClassPos(form) ==
    CASE form = "nf1" -> {1, 2}
      [] form = "nf2" -> {1, 2, 3}
      [] form = "disjoint" -> {1, 2, 3}
      [] form = "nf3" -> {1, 3}
      [] form = "nf4" -> {2, 3}
RelPos(form) ==
    CASE form = "nf3" -> {2}
      [] form = "nf4" -> {1}
      [] OTHER -> {}

C6_State ==
    /\ IsIndex(classes)
    /\ IsIndex(relations)
    /\ \A form \in NFs : \A i \in 1..Len(data[form]) :
          LET t == data[form][i]
          IN  /\ DOMAIN t = ClassPos(form) \cup RelPos(form)
              /\ \A p \in ClassPos(form) : t[p] \in Assigned(classes)
              /\ \A p \in RelPos(form) : t[p] \in Assigned(relations)

C6_Step ==
    /\ \A k \in DOMAIN classes : Get(classes', k) = classes[k]
    /\ \A k \in DOMAIN relations : Get(relations', k) = relations[k]
    /\ \A k \in DOMAIN classes' \ DOMAIN classes :
          classes'[k] >= Cardinality(DOMAIN classes)
    /\ \A k \in DOMAIN relations' \ DOMAIN relations :
          relations'[k] >= Cardinality(DOMAIN relations)
    /\ \A c, d \in Ids :
          /\ (IsRead /\ ReadRaw = MkNF1(c, d)) =>
                Numbers(classes, classes', <<c, d>>)
          /\ \A e \in Ids : (IsRead /\ ReadRaw = MkNF2(c, d, e)) =>
                Numbers(classes, classes', <<c, d, e>>)
          /\ \A r \in RelIds :
                (IsRead /\ (ReadRaw = MkNF3(c, r, d) \/ ReadRaw = MkNF4(r, c, d))) =>
                    /\ Numbers(classes, classes', <<c, d>>)
                    /\ Numbers(relations, relations', <<r>>)

\* C6: the class index and the relation index are each one to one onto
\* 0..n-1, an identifier keeps the index it got, new identifiers are numbered
\* in first-seen order, and every index in a stored tuple is an assigned index
\* of the matching dict.
C6_IndexMaps == []C6_State /\ [][C6_Step]_vars

C6_Witness ==
    /\ Cardinality(DOMAIN classes) >= 4
    /\ Cardinality(DOMAIN relations) = 2
    /\ Len(data["nf3"]) = 1 /\ Len(data["nf4"]) = 1

\* The lines of the file read so far that are intersections under bottom
BottomLines == {i \in 1..Len(file) : file[i] \in {MkNF2(c, d, OwlNothing) : c, d \in Ids}}

\* C7 as stated: an intersection axiom under owl:Nothing is stored only in the
\* Disjointness list, as the pair (c, d).
C7_DisjointIsPair ==
    /\ Len(data["disjoint"]) = Cardinality(BottomLines)
    /\ \A i \in 1..Len(data["nf2"]) : data["nf2"][i][3] # Get(classes, OwlNothing)
    /\ \A i \in 1..Len(data["disjoint"]) :
          /\ Len(data["disjoint"][i]) = 2
          /\ \E c, d \in DOMAIN classes :
                data["disjoint"][i] = <<classes[c], classes[d]>>

\* C7 amended: an intersection axiom under owl:Nothing is stored only in the
\* Disjointness list, never in NF2, as the triple (c, d, e) of class indices
\* whose last component is the index of owl:Nothing.
C7_DisjointIsTriple ==
    /\ Len(data["disjoint"]) = Cardinality(BottomLines)
    /\ \A i \in 1..Len(data["nf2"]) : data["nf2"][i][3] # Get(classes, OwlNothing)
    /\ \A i \in 1..Len(data["disjoint"]) :
          /\ Len(data["disjoint"][i]) = 3
          /\ data["disjoint"][i][3] = Get(classes, OwlNothing)
          /\ \E c, d \in DOMAIN classes :
                data["disjoint"][i] = <<classes[c], classes[d], classes[OwlNothing]>>

C7_Witness ==
    /\ lpc = "done"
    /\ Len(data["disjoint"]) = 1
    /\ Len(data["nf2"]) = 1
    /\ file[1] = MkNF2(IdA, IdB, OwlNothing)

\* C8: a malformed or empty line is skipped silently: no error is raised, no
\* axiom is stored, the indices are unchanged and parsing goes on.
C8_SkipsMalformed ==
    [][(IsRead /\ ReadRaw \in MalformedLines) =>
          /\ raised' = "none"
          /\ lpc' = "reading"
          /\ UNCHANGED <<classes, relations, data>>]_vars


(***************************************************************************)
(* Properties of the parameter-array section                               *)
(***************************************************************************)
Decomposed(i) ==
    [org |-> At(orgs, (i \div 20) % 2), embedding_size |-> At(sizes, (i \div 5) % 4),
     margin |-> At(margins, i % 5), reg_norm |-> 1]

C9_State ==
    /\ ("train" \in ran /\ params_array_index >= 0) =>
          train_opts = Decomposed(params_array_index)
    /\ ("eval" \in ran /\ params_array_index >= 0) =>
          eval_opts = Decomposed(params_array_index)
    /\ (ran = {"train", "eval"} /\ params_array_index = 0) =>
          /\ train_opts = [org |-> "human", embedding_size |-> 50, margin |-> "-0.1",
                           reg_norm |-> 1]
          /\ eval_opts = train_opts
    /\ (ran = {"train", "eval"} /\ params_array_index = 5) =>
          /\ train_opts = [org |-> "human", embedding_size |-> 100, margin |-> "-0.1",
                           reg_norm |-> 1]
          /\ eval_opts = train_opts

\* C9: for every index i >= 0 both scripts derive margins[i mod 5],
\* sizes[(i div 5) mod 4], orgs[(i div 20) mod 2] and reg_norm 1; index 0 gives
\* (-0.1, 50, orgs[0]), index 5 gives (-0.1, 100, orgs[0]); index -1 overrides
\* nothing.
C9_MixedRadix ==
    /\ []C9_State
    /\ [][params_array_index = -1 => UNCHANGED <<train_opts, eval_opts>>]_vars

C9_Witness ==
    /\ ran = {"train", "eval"}
    /\ params_array_index = 27
    /\ train_opts = [org |-> "yeast", embedding_size |-> 100, margin |-> "0.0",
                     reg_norm |-> 1]

(***************************************************************************)
(* Properties of Generator                                                 *)
(***************************************************************************)
\* C4: next() returns exactly S = ceil(max count / B) batches, each with one
\* minibatch per normal form and the labels, then returns None and has reset
\* start to 0, and does so again in the next epoch; start stays in 0..S.
C4_StepsPerEpoch ==
    /\ steps = TrainSteps(NbTrainData(shape0), batch_size)
    /\ start \in 0..steps
    /\ gpc = "ready" => yielded = start
    /\ ret.kind # "ValueError"
    /\ ret.kind = "batch" => DOMAIN ret.rows = NFs /\ ret.labels = batch_size
    /\ ret.kind = "None" => ret.after = steps /\ start = 0


(***************************************************************************)
(* Properties of the training loop and the checkpoint callback             *)
(***************************************************************************)
InitialBest == [num |-> 100000, den |-> 1]

\* The least of InitialBest and the mean ranks of evals[1..k]
BestOf(k) ==
    LET all == {InitialBest} \cup {evals[i].mean_rank : i \in 1..k}
    IN  CHOOSE b \in all : \A x \in all : ~RatLess(x, b)

\* The evaluations that improved on everything before them
Improving == {i \in 1..Len(evals) : RatLess(evals[i].mean_rank, BestOf(i - 1))}

C1_State ==
    /\ RatEq(best_rank, BestOf(Len(evals)))
    /\ {saves[j] : j \in 1..Len(saves)} = {evals[i].epoch : i \in Improving}
    /\ Len(saves) = Cardinality(Improving)
    /\ (saves = <<>>) = (files["cls"] = Absent)
    /\ (saves = <<>>) = (files["rel"] = Absent)
    /\ saves # <<>> =>
          \E i \in 1..Len(evals) :
              /\ evals[i].epoch = Last(saves)
              /\ RatEq(evals[i].mean_rank, BestOf(Len(evals)))
              /\ \A j \in 1..(i - 1) : RatLess(evals[i].mean_rank, evals[j].mean_rank)

C1_Step ==
    /\ ~RatLess(best_rank, best_rank')
    /\ evals' # evals =>
          /\ (saves' # saves) = RatLess(Last(evals').mean_rank, best_rank)
          /\ cls_embeddings' = cls_embeddings /\ rel_embeddings' = rel_embeddings
    /\ saves' # saves =>
          /\ evals' # evals
          /\ saves' = Append(saves, epoch)
          /\ files'["cls"] = Pickle(NameList(classes), cls_embeddings)
          /\ files'["rel"] = Pickle(NameList(relations), rel_embeddings)
    /\ saves' = saves => files'["cls"] = files["cls"] /\ files'["rel"] = files["rel"]

\* C1: on_epoch_end writes the class and relation tables exactly when the
\* epoch's mean_rank is strictly below best_rank as it stood; best_rank is the
\* least of 100000 and every mean_rank computed so far and never increases; the
\* snapshot on disk is the tables of the earliest epoch that attained it.
C1_PersistIffImproved == []C1_State /\ [][C1_Step]_vars

C1_Witness ==
    /\ Len(evals) = 2
    /\ saves = <<0>>
    /\ RatEq(evals[1].mean_rank, evals[2].mean_rank)
    /\ files["cls"].written
    /\ files["cls"].embeddings # cls_embeddings

\* C2: a loss that is not finite (NaN or an infinity) at the end of an epoch
\* halts training: stop_training is set, nothing is scored, best_rank and the
\* snapshot files are unchanged, and no further training step is executed.
C2_NonFiniteHalts ==
    /\ [][(tpc = "epoch_end" /\ logs \in {"nan", "inf"}) =>
             /\ stop_training'
             /\ tpc' = "finished"
             /\ UNCHANGED <<best_rank, files, evals, saves>>]_vars
    /\ [][stop_training => UNCHANGED <<cls_embeddings, rel_embeddings, steps_done>>]_vars

\* C3: whenever owl:Thing is in the class index, at whatever index, its row
\* holds the frozen top vector when the forward pass of a step reads the table.
C3_TopPinned ==
    (tpc = "train_on_batch" /\ OwlThing \in DOMAIN classes) =>
        cls_embeddings[classes[OwlThing]] = TopEmbed

C10_State ==
    /\ tpc \notin {"idle", "setup"} =>
          files["cls_0"].written /\ files["rel_0"].written
    /\ (tpc = "batch_begin" /\ epoch = 0 /\ steps_done = 0) =>
          /\ files["cls_0"] = Pickle(NameList(classes), cls_embeddings)
          /\ files["rel_0"] = Pickle(NameList(relations), rel_embeddings)
    /\ valid_data = <<>> =>
          /\ best_rank = InitialBest
          /\ evals = <<>> /\ saves = <<>>
          /\ files["cls"] = Absent /\ files["rel"] = Absent

\* C10: the epoch-0 snapshot of the initial tables is written before the first
\* training step and stays as written; with an empty validation set no
\* improvement is ever declared, best_rank stays 100000 and the out files are
\* never written, for any number of epochs.
C10_BaselineOnly ==
    /\ []C10_State
    /\ [][tpc # "setup" =>
             files'["cls_0"] = files["cls_0"] /\ files'["rel_0"] = files["rel_0"]]_vars

C10_Witness ==
    /\ valid_data = <<>>
    /\ tpc = "finished"
    /\ epoch = MaxEpochs
    /\ files["cls_0"].written
    /\ files["cls_0"].embeddings # cls_embeddings
    /\ ~files["cls"].written

(***************************************************************************)
(* Properties of load_valid_data                                           *)
(***************************************************************************)
ProteinIndices == {classes[k] : k \in Proteins(classes)}

\* C11: every triple load_valid_data kept has two protein endpoints and a
\* relation of the relation index, so the scorer of on_epoch_end maps both
\* endpoints to a protein position and never raises.
C11_KeptAreProteins ==
    /\ \A i \in 1..Len(valid_data) :
          /\ valid_data[i][1] \in ProteinIndices
          /\ valid_data[i][3] \in ProteinIndices
          /\ valid_data[i][2] \in {relations[k] : k \in DOMAIN relations}
    /\ tpc # "raised"

(***************************************************************************)
(* Properties of the validation scorer                                     *)
(***************************************************************************)
\* The table with the radius coordinate of class i negated
NegateRadius(cls, i) == [cls EXCEPT ![i][2] = -cls[i][2]]

\* on_epoch_end has just computed a mean_rank
Scored == evals' # evals

\* C12: the radius is consumed through its absolute value: the mean_rank of
\* on_epoch_end is the one evaluate_interactions.py computes from the same
\* tables and margin, and negating the radius coordinate of any class leaves
\* it as it is.
C12_RadiusByMagnitude ==
    [][Scored =>
          /\ RatEq(Last(evals').mean_rank,
                   EvalScore(cls_embeddings, rel_embeddings, valid_data, classes,
                             el_margin).mean_rank)
          /\ \A i \in DOMAIN cls_embeddings :
                RatEq(Last(evals').mean_rank,
                      Score(NegateRadius(cls_embeddings, i), rel_embeddings,
                            valid_data, classes, el_margin).mean_rank)]_vars

\* The centers of the proteins in the table, by protein position
ProtCenters(cls, cl) ==
    LET pi == ProtIndex(cl) IN [k \in DOMAIN pi |-> cls[pi[k]][1]]

Reverse(seq) == [i \in 1..Len(seq) |-> seq[Len(seq) + 1 - i]]

\* C14: scoring leaves the candidate centers as they were read from the table,
\* and the mean_rank does not depend on the order of the triples.
C14_CentersUnchanged ==
    [][Scored =>
          /\ Score(cls_embeddings, rel_embeddings, valid_data, classes,
                   el_margin).centers = ProtCenters(cls_embeddings, classes)
          /\ RatEq(Last(evals').mean_rank,
                   Score(cls_embeddings, rel_embeddings, Reverse(valid_data), classes,
                         el_margin).mean_rank)]_vars

(***************************************************************************)
(* Properties of dis_loss                                                  *)
(***************************************************************************)
Distance == Abs(dis_d[1] - dis_c[1])
Radius(ball) == Abs(ball[2])

\* C13 as stated: the violation term is zero iff
\* distance >= radius(c) + radius(d) - margin.
C13_ZeroIffMarginSubtracted ==
    dpc = "output" =>
        ((dis_out = 0) = (Distance >= Radius(dis_c) + Radius(dis_d) - dis_margin))

\* C13: the violation term of dis_loss is zero iff
\* distance >= radius(c) + radius(d) + margin, for every margin.
C13_ZeroIffMarginAdded ==
    dpc = "output" =>
        ((dis_out = 0) = (Distance >= Radius(dis_c) + Radius(dis_d) + dis_margin))

C13_Witness ==
    /\ dpc = "output"
    /\ dis_margin < 0
    /\ dis_c[2] < 0
    /\ dis_out = 0
    /\ Distance < Radius(dis_c) + Radius(dis_d) - dis_margin

(***************************************************************************)
(* Properties of Generator under concurrent calls and empty arrays         *)
(***************************************************************************)
\* C15: under every interleaving of the worker threads the step counter stays
\* within 0..S, no increment of it is lost (it counts the batches returned
\* since the last None), and exactly S batches are returned between two None.
C15_WorkersKeepCount ==
    /\ start \in 0..steps
    /\ start = yielded
    /\ ret.kind = "None" => ret.after = steps

\* C16: every call of next() within the S steps returns a batch of
\* batch_size rows for each of the five normal forms, whatever the lengths of
\* the arrays, and never raises.
C16_EveryDrawSucceeds ==
    /\ gpc # "raised"
    /\ (yielded > 0 /\ ret.kind = "batch") =>
          \A k \in NFs : ret.rows[k] = batch_size

=============================================================================
